---- MODULE Spec2Model ----
(***************************************************************************)
(* Funding-rate arbitrage engine: the two-venue strategy                   *)
(* (FundingArbitrageStrategy, strategies/funding_arb.py) and the N-venue   *)
(* strategy (DynamicFundingArbitrageStrategy,                              *)
(* strategies/dynamic_funding_arb.py), driven by run_strategy_loop         *)
(* (run_strategy.py).                                                      *)
(*                                                                         *)
(* Quantities are integers in units of 0.000001 of the base asset, funding *)
(* rates are integers in units of 0.000001 per hour, APRs and spreads are  *)
(* in units of 0.000001, prices and notionals are whole dollars, times are *)
(* seconds.                                                                *)
(***************************************************************************)
EXTENDS Integers, Sequences, FiniteSets, TLC

VARIABLES
    variant,                 \* strategy type run by run_strategy_loop: "two" or "dyn"
    is_simulation,           \* config flag
    auto_revert,             \* config flag (two-venue)
    order_size_usd,          \* config value: the notional of one entry
    loop,                    \* position of run_strategy_loop: "created", "ready" (about to
                             \* call check_opportunity), "checking" (awaiting it), "ran"
                             \* (sleeping), "stopped"
    main,                    \* position of main: "running", "cleanup" (tasks cancelled,
                             \* awaiting them), "closed" (venue connections closed)
    monitor_task,            \* the balance monitor: "running" or "cancelled"
    in_flight,               \* check_opportunity calls that have started and not returned
    is_running,
    current_position,        \* two-venue direction
    current_pair,            \* N-venue direction: <<>> (None) or <<short venue, long venue>>
    current_position_size,
    has_unbalanced_position, \* N-venue
    is_checking,             \* N-venue re-entrancy guard
    quarantine_mode,
    quarantine_reason,
    error_backoff,
    error_age,               \* time.time() - last_error_time at the end of the last handler, capped
    price_error_last,        \* the last cycle that ended met an insane price
    order_age,               \* seconds since the last handler that placed orders, capped
    execution_age,           \* time.time() - last_execution_time at the end of the last handler, capped
    orders,                  \* create_order calls made by the last handler run, in order
    updates,                 \* statuses passed to on_state_update by the last handler run
    cyc,                     \* what the last handler run saw and decided
    calc                     \* inputs and results of the sizing and spread functions applied
                             \* on their own

vars == <<variant, is_simulation, auto_revert, order_size_usd, main, monitor_task, loop,
          in_flight, is_running, current_position,
          current_pair, current_position_size, has_unbalanced_position, is_checking,
          quarantine_mode, quarantine_reason, error_backoff, error_age, execution_age,
          order_age, price_error_last, orders, updates, cyc, calc>>

-----------------------------------------------------------------------------
(* Units and program constants *)

Unit == 1000000
Eps == 1
HoursPerYear == 24 * 365

NONE == "NONE"
SHORT_PRIMARY_LONG_SECONDARY == "SHORT_PRIMARY_LONG_SECONDARY"
LONG_PRIMARY_SHORT_SECONDARY == "LONG_PRIMARY_SHORT_SECONDARY"
NoPair == <<>>

Venues == {"lighter", "backpack", "edgex"}
EnabledEx == <<"lighter", "backpack", "edgex">>
Primary == "lighter"
Secondary == "backpack"

InitialBackoff == 10
MaxBackoff == 300
ExecutionCooldown == 120
TickSeconds == 60
EntryThreshold == 10000
EntryThresholdApr == 50000
ExitThresholdApr == 0
OrderSizeUsd == 100
MaxPositionSizeUsd == 100
(* The order_size_usd values a configuration of the N-venue strategy is given: the
   default, and one above max_position_size_usd. *)
OrderSizes == {OrderSizeUsd, 2 * MaxPositionSizeUsd}
ExecutionWindowMinutes == 5
RevertRetries == 3
InitialBestSpread == -1000000
SizeMult == 100
BStep == 0
DefaultCommonStep == 100
SolPriceLow == 10
SolPriceHigh == 500
MaxPositionSize == 0

(* Bound of the model: an error or execution older than this is just "old" *)
AgeCap == 300

(* Bound of the model: calls of check_opportunity running at the same time *)
MaxInFlight == 2

(* The entry price the venues report with a position *)
PosEntryPrice == 100

(* Inputs *)
Outcomes == {"ok", "error", "exc", "none", "empty"}
Rates == {0, 6}
RateResults == {[ok |-> TRUE, rate |-> r] : r \in Rates} \cup {[ok |-> FALSE, rate |-> 0]}
Prices == {0, 5, 100}
TickerKinds == {"ok", "exc", "exc429"}
Minutes == {0, 5, 30}
QueryOutcomes == {"ok", "exc"}
PendingCounts == {0, 1}

Abs(x) == IF x < 0 THEN -x ELSE x
Max(a, b) == IF a >= b THEN a ELSE b
Min(a, b) == IF a <= b THEN a ELSE b

-----------------------------------------------------------------------------
(* The handler state: every field a handler of either strategy can change. *)

St == [current_position |-> current_position,
       current_pair |-> current_pair,
       current_position_size |-> current_position_size,
       has_unbalanced_position |-> has_unbalanced_position,
       is_checking |-> is_checking,
       is_running |-> is_running,
       quarantine_mode |-> quarantine_mode,
       quarantine_reason |-> quarantine_reason,
       error_backoff |-> error_backoff,
       error_age |-> error_age,
       execution_age |-> execution_age,
       order_age |-> order_age,
       price_error_last |-> price_error_last,
       orders |-> <<>>,
       updates |-> <<>>,
       cyc |-> cyc]

(* The record of a handler run, before the handler has done anything. *)
NewCyc(s, op) ==
    [op |-> op, path |-> "start", synced |-> FALSE, reads |-> {},
     minute |-> -1, price |-> -1, spread |-> 0, rate_failed |-> {}, sync_failed |-> {},
     reported |-> [v \in Venues |-> 0],
     pending |-> 0, entry_dir |-> NONE, entry_pair |-> NoPair, best_pair |-> NoPair,
     entry_qty |-> 0,
     entry_size_before |-> 0, exit_sizes |-> <<0, 0>>,
     gate_position |-> NONE, gate_size |-> 0,
     synced_position |-> NONE, synced_size |-> 0,
     aprs |-> [v \in Venues |-> 0],
     pnl_added |-> 0, trades |-> <<>>,
     pre_position |-> s.current_position, pre_pair |-> s.current_pair,
     pre_size |-> s.current_position_size,
     pre_unbalanced |-> s.has_unbalanced_position,
     pre_quarantine |-> s.quarantine_mode,
     pre_backoff |-> s.error_backoff,
     start_error_age |-> s.error_age, start_execution_age |-> s.execution_age,
     start_order_age |-> s.order_age, start_price_error_last |-> s.price_error_last]

Path(s, p) == [s EXCEPT !.cyc.path = p]
Notify(s, status) == [s EXCEPT !.updates = Append(@, status)]

(* A create_order call on a venue, with the outcome res the venue gave it. *)
create_order(s, venue, side, qty, kind, res) ==
    [s EXCEPT !.orders = Append(@, [venue |-> venue, side |-> side, qty |-> qty,
                                    kind |-> kind, res |-> res])]

Opposite(side) == IF side = "BUY" THEN "SELL" ELSE "BUY"

(* An hourly funding rate as an APR. *)
to_apr(rate) == rate * HoursPerYear

(* A spread that forgets which venue is the short side. *)
pair_spread_abs(apr_a, apr_b) == Abs(apr_a - apr_b)

(* The spread of the pair (a short, b long): the APR of a less the APR of b. *)
pair_spread(apr_a, apr_b) == apr_a - apr_b

-----------------------------------------------------------------------------
(* FundingArbitrageStrategy *)

(* is_success of execute_dual_leg_entry and execute_position_exit: anything that is
   neither an exception nor a dict holding "error" counts as a filled leg; the
   result None of a leg that was never submitted is passed as "none". *)
is_success(res) == res \notin {"exc", "error"}

(* The direction heuristic of on_start and check_opportunity. *)
classify_direction(real_pos_p, real_pos_s) ==
    LET is_p_short == real_pos_p < -Eps
        is_p_long == real_pos_p > Eps
        is_s_long == real_pos_s > Eps
        is_s_short == real_pos_s < -Eps
    IN IF is_p_short \/ is_s_long THEN SHORT_PRIMARY_LONG_SECONDARY
       ELSE IF is_p_long \/ is_s_short THEN LONG_PRIMARY_SHORT_SECONDARY
       ELSE NONE

(* A reconciliation that takes the mean of the two legs for the size. *)
reconcile_mean(s, real_pos_p, real_pos_s) ==
    [s EXCEPT !.current_position_size = (Abs(real_pos_p) + Abs(real_pos_s)) \div 2,
              !.current_position = classify_direction(real_pos_p, real_pos_s)]

(* Runtime state self-healing, at startup and in every cycle: size by max logic,
   direction by the heuristic. *)
reconcile(s, real_pos_p, real_pos_s) ==
    [s EXCEPT !.current_position_size = Max(Abs(real_pos_p), Abs(real_pos_s)),
              !.current_position = classify_direction(real_pos_p, real_pos_s)]

(* verify_positions: q.primary, q.secondary and q.pending_query are the outcomes of
   the two get_positions calls and of get_pending_order_count; q.pos is what the
   venues report for the traded symbol, q.pending the reported count. *)
verify_failed(q) == q.primary = "exc" \/ q.secondary = "exc" \/ q.pending_query = "exc"

failed_queries(q) ==
    (IF q.primary = "exc" THEN {"primary"} ELSE {})
      \cup (IF q.secondary = "exc" THEN {"secondary"} ELSE {})
      \cup (IF q.pending_query = "exc" THEN {"pending"} ELSE {})

verify_positions(q) ==
    [real_pos_primary |-> q.pos[Primary],
     real_pos_secondary |-> q.pos[Secondary],
     pending_orders_primary |-> q.pending]

record_sync(s, real_positions) ==
    [s EXCEPT !.cyc.reported[Primary] = real_positions.real_pos_primary,
              !.cyc.reported[Secondary] = real_positions.real_pos_secondary,
              !.cyc.synced = TRUE]

(* A stall that forgets the tracked position instead of retaining it. *)
stall_and_flatten(s) ==
    Path(Notify([s EXCEPT !.current_position = NONE, !.current_position_size = 0],
                "SYNC_ERROR"), "sync_error")

(* check_opportunity when verify_positions raised: stall, keep the state. *)
stall_on_sync_error(s) == Path(Notify(s, "SYNC_ERROR"), "sync_error")

(* A commit that records the direction and forgets the quantity. *)
commit_direction_only(s, direction, quantity) ==
    [s EXCEPT !.current_position = direction, !.error_backoff = InitialBackoff]

(* execute_dual_leg_entry, both legs succeeded: commit the new position. *)
commit_entry(s, direction, quantity) ==
    [s EXCEPT !.current_position = direction,
              !.current_position_size = @ + quantity,
              !.error_backoff = InitialBackoff]

enter_quarantine(s, reason) ==
    [s EXCEPT !.quarantine_mode = TRUE, !.quarantine_reason = reason]

(* A revert that makes every one of its attempts, whatever the earlier ones returned. *)
RECURSIVE try_revert_no_stop(_, _, _, _, _, _)
try_revert_no_stop(s, venue, side, qty, revs, i) ==
    IF i > RevertRetries THEN [s |-> s, ok |-> FALSE]
    ELSE LET s1 == create_order(s, venue, side, qty, "revert", revs[i])
             rest == try_revert_no_stop(s1, venue, side, qty, revs, i + 1)
         IN [s |-> rest.s, ok |-> is_success(revs[i]) \/ rest.ok]

(* try_revert: up to RevertRetries opposite-side market orders, stopping at the first
   one is_success accepts. revs[i] is the outcome of attempt i. *)
RECURSIVE try_revert_from(_, _, _, _, _, _)
try_revert_from(s, venue, side, qty, revs, i) ==
    IF i > RevertRetries THEN [s |-> s, ok |-> FALSE]
    ELSE LET s1 == create_order(s, venue, side, qty, "revert", revs[i])
         IN IF is_success(revs[i]) THEN [s |-> s1, ok |-> TRUE]
            ELSE try_revert_from(s1, venue, side, qty, revs, i + 1)

(* A revert whose attempts are made and whose result is never believed. *)
try_revert_unchecked(s, venue, side, qty, revs) ==
    [s |-> try_revert_from(s, venue, side, qty, revs, 1).s, ok |-> FALSE]

try_revert(s, venue, side, qty, revs) == try_revert_from(s, venue, side, qty, revs, 1)

(* The partial-fill branch of execute_dual_leg_entry. *)
handle_partial_fill(s, p_ok, side_primary, side_secondary, quantity, revs) ==
    LET s1 == [s EXCEPT !.error_age = 0]
    IN IF auto_revert
       THEN IF p_ok
            THEN LET r == try_revert(s1, Primary, Opposite(side_primary), quantity, revs)
                 IN IF r.ok THEN Path(r.s, "entry_reverted")
                    ELSE Path(enter_quarantine(r.s, "Primary Revert Failed"),
                              "entry_revert_failed")
            ELSE LET r == try_revert(s1, Secondary, Opposite(side_secondary), quantity, revs)
                 IN IF r.ok THEN Path(r.s, "entry_reverted")
                    ELSE Path(enter_quarantine(r.s, "Secondary Revert Failed"),
                              "entry_revert_failed")
       ELSE Path(enter_quarantine(s1, "Partial fill / Auto-revert off"), "entry_partial")

(* execute_dual_leg_entry: outs.p and outs.s are the outcomes of the two create_order
   calls, revs those of the revert attempts. *)
execute_dual_leg_entry(s, direction, quantity, outs, revs) ==
    LET s0 == [s EXCEPT !.cyc.entry_dir = direction, !.cyc.entry_qty = quantity,
                        !.cyc.entry_size_before = s.current_position_size]
    IN IF is_simulation
       THEN Path([s0 EXCEPT !.current_position = direction,
                            !.current_position_size = @ + quantity], "entry_simulated")
       ELSE LET side_primary == IF direction = SHORT_PRIMARY_LONG_SECONDARY
                                THEN "SELL" ELSE "BUY"
                side_secondary == Opposite(side_primary)
                s1 == create_order(s0, Primary, side_primary, quantity, "entry", outs.p)
                s2 == create_order(s1, Secondary, side_secondary, quantity, "entry", outs.s)
                p_ok == is_success(outs.p)
                s_ok == is_success(outs.s)
            IN IF p_ok /\ s_ok THEN Path(commit_entry(s2, direction, quantity), "entry_ok")
               ELSE IF ~p_ok /\ ~s_ok THEN Path([s2 EXCEPT !.error_age = 0], "entry_failed")
               ELSE handle_partial_fill(s2, p_ok, side_primary, side_secondary,
                                        quantity, revs)

(* The exit cooldown gate of execute_position_exit. *)
exit_cooldown_active(s) == s.execution_age < ExecutionCooldown

(* execute_position_exit, some close order failed: quarantine, and reduce the tracked
   size by what the primary leg closed. *)
fail_exit(s, p_ok, size_to_close_p) ==
    LET s1 == IF ~is_simulation THEN [s EXCEPT !.quarantine_mode = TRUE] ELSE s
    IN IF p_ok THEN [s1 EXCEPT !.current_position_size = @ - size_to_close_p] ELSE s1

clear_position(s) == [s EXCEPT !.current_position = NONE, !.current_position_size = 0]

(* _calculate_pnl: the price differential of each leg times the tracked size; the
   secondary leg counts only when both of its prices are known. *)
calculate_pnl(position_type, size, entry_p, entry_s, exit_p, exit_s) ==
    IF position_type = NONE \/ size = 0 THEN 0
    ELSE IF position_type = SHORT_PRIMARY_LONG_SECONDARY
    THEN (entry_p - exit_p) * size
           + (IF exit_s > 0 /\ entry_s > 0 THEN (exit_s - entry_s) * size ELSE 0)
    ELSE IF position_type = LONG_PRIMARY_SHORT_SECONDARY
    THEN (exit_p - entry_p) * size
           + (IF exit_s > 0 /\ entry_s > 0 THEN (entry_s - exit_s) * size ELSE 0)
    ELSE 0

(* execute_position_exit after every close order succeeded: fetch the exit prices,
   add the trade's PnL to realized_pnl and pass the trade record to record_trade. An
   exception of the primary's ticker is caught and nothing is booked; one of the
   secondary's leaves its exit price at 0. fin.ticker: the outcome of the fetches;
   fin.price: the price they return. *)
book_closed_trade(s, fin) ==
    LET s1 == [s EXCEPT !.cyc.reads = @ \cup {"exit_ticker"}]
    IN IF fin.ticker = "exc" THEN s1
       ELSE LET curr_price_p == fin.price
                curr_price_s == IF fin.ticker = "exc_secondary" THEN 0 ELSE fin.price
                pnl == calculate_pnl(s.current_position, s.current_position_size,
                                     PosEntryPrice, PosEntryPrice, curr_price_p,
                                     curr_price_s)
            IN [s1 EXCEPT !.cyc.pnl_added = @ + pnl,
                          !.cyc.trades = Append(@, [direction |-> s.current_position,
                                                    size |-> s.current_position_size,
                                                    pnl_realized |-> pnl])]

(* execute_position_exit: sizes are the positions reconciled in this cycle; a leg of
   size 0 gets no order, so results[0] is the first order that was submitted. *)
execute_position_exit(s, exit_direction, sizes, outs, fin) ==
    IF s.quarantine_mode THEN Path(s, "exit_quarantined")
    ELSE IF exit_cooldown_active(s) THEN Path(s, "exit_cooldown")
    ELSE
      LET s0 == [s EXCEPT !.execution_age = 0]
      IN IF is_simulation THEN Path(clear_position(s0), "exit_simulated")
         ELSE
           LET side_primary == IF exit_direction = LONG_PRIMARY_SHORT_SECONDARY
                               THEN "SELL" ELSE "BUY"
               side_secondary == Opposite(side_primary)
               size_to_close_p == Abs(sizes.real_pos_primary)
               size_to_close_s == Abs(sizes.real_pos_secondary)
               s1 == IF size_to_close_p > 0
                     THEN create_order(s0, Primary, side_primary, size_to_close_p,
                                       "exit", outs.p)
                     ELSE s0
               s2 == IF size_to_close_s > 0
                     THEN create_order(s1, Secondary, side_secondary, size_to_close_s,
                                       "exit", outs.s)
                     ELSE s1
               results == [i \in 1..Len(s2.orders) |-> s2.orders[i].res]
               p_ok == is_success(results[1])
               s_ok == is_success(IF Len(results) > 1 THEN results[2] ELSE "none")
               s3 == [s2 EXCEPT !.cyc.exit_sizes = <<size_to_close_p, size_to_close_s>>]
           IN IF p_ok /\ s_ok THEN Path(clear_position(book_closed_trade(s3, fin)), "exit_ok")
              ELSE Path(fail_exit(s3, p_ok, size_to_close_p), "exit_failed")

(* _validate_price_sanity for the configured symbol SOL-USDC. *)
validate_price_sanity(price) == SolPriceLow < price /\ price < SolPriceHigh

(* Dynamic sizing: the step is the larger of the primary's 1/size_mult and the
   secondary's stepSize, the quantity is floor-truncated to it and then rounded to
   int(abs(log10(step))) decimals. *)
LStep == Unit \div SizeMult
common_step_of(l_step, b_step) ==
    IF l_step > 0 \/ b_step > 0 THEN Max(l_step, b_step) ELSE DefaultCommonStep
common_step == common_step_of(LStep, BStep)

RECURSIVE CeilPow10(_, _)
CeilPow10(n, g) == IF g >= n THEN g ELSE CeilPow10(n, g * 10)

(* 10^-precision in quantity units, precision = int(abs(log10(step))) *)
round_granule(step) == IF step >= Unit THEN Unit ELSE CeilPow10(step, 1)

round_to(x, g) ==
    LET q == x \div g
        r == x % g
    IN IF 2 * r < g THEN q * g
       ELSE IF 2 * r > g THEN (q + 1) * g
       ELSE IF q % 2 = 0 THEN q * g ELSE (q + 1) * g

calc_size(usd, price, step) ==
    round_to(((usd * Unit) \div (price * step)) * step, round_granule(step))

(* The max-position limit: the USD limit over the price of this cycle. *)
effective_max_pos(price) ==
    IF MaxPositionSizeUsd # 0 /\ price > 0 THEN (MaxPositionSizeUsd * Unit) \div price
    ELSE MaxPositionSize

is_in_window(current_min) ==
    current_min < ExecutionWindowMinutes \/ current_min >= 60 - ExecutionWindowMinutes

(* A cooldown check that never holds a cycle back. *)
cooldown_off(s) == FALSE

error_cooldown_active(s) == s.error_age < s.error_backoff

(* A quarantine gate that lets every cycle through. *)
gate_open(s) == FALSE

(* The quarantine gate at the head of check_opportunity. *)
quarantine_gate(s) == s.quarantine_mode

(* The except branch of check_opportunity. *)
handle_exception(s, is_rate_limit) ==
    LET s1 == IF is_rate_limit
              THEN [s EXCEPT !.error_age = 0,
                             !.error_backoff = Min(s.error_backoff * 2, MaxBackoff)]
              ELSE [s EXCEPT !.error_age = 0, !.error_backoff = InitialBackoff]
    IN Path(Notify(s1, "Error (Wait)"), IF is_rate_limit THEN "rate_limited" ELSE "error")

(* The cycle's decision reads the spread computed from the fetched rates. *)
use_spread(s, rates) ==
    [s EXCEPT !.cyc.spread = rates.spread_apr, !.cyc.rate_failed = rates.failed,
              !.cyc.reads = @ \cup {"spread"}]

(* An entry signal that takes the direction opposite to the sign of the spread. *)
entry_signal_swapped(spread_apr) ==
    IF spread_apr > EntryThreshold THEN LONG_PRIMARY_SHORT_SECONDARY
    ELSE IF spread_apr < -EntryThreshold THEN SHORT_PRIMARY_LONG_SECONDARY
    ELSE NONE

(* Step 5 of the entry logic: the direction the spread asks for, NONE when the
   spread is within the threshold. *)
entry_signal(spread_apr) ==
    IF spread_apr > EntryThreshold THEN SHORT_PRIMARY_LONG_SECONDARY
    ELSE IF spread_apr < -EntryThreshold THEN LONG_PRIMARY_SHORT_SECONDARY
    ELSE NONE

(* A pending-order gate that lets every cycle through. *)
pending_gate_open(pending) == FALSE

(* The pending-order check of the entry logic. *)
pending_gate(pending) == pending > 0

(* check_opportunity from the entry logic on: the strategy is flat and in the window. *)
entry_logic(s0, rates, price, pending, outs, revs) ==
    LET sp == [s0 EXCEPT !.cyc.pending = pending, !.cyc.reads = @ \cup {"pending"},
                         !.cyc.gate_position = s0.current_position,
                         !.cyc.gate_size = s0.current_position_size]
        s == [sp EXCEPT !.cyc.price = price, !.cyc.reads = @ \cup {"price"}]
    IN
    IF pending_gate(pending) THEN Path(Notify(sp, "Pending Orders"), "pending_orders")
    ELSE IF OrderSizeUsd # 0 /\ price <= 0 THEN Path(s, "no_price")
    ELSE IF OrderSizeUsd # 0 /\ ~validate_price_sanity(price)
         THEN Path(Notify([s EXCEPT !.error_backoff = MaxBackoff], "Price Error"),
                   "price_error")
    ELSE
      LET trade_qty == IF OrderSizeUsd # 0 THEN calc_size(OrderSizeUsd, price, common_step)
                       ELSE 0
          s1 == [s EXCEPT !.cyc.entry_qty = trade_qty]
          su == use_spread(s1, rates)
      IN IF trade_qty <= 0 THEN Path(s1, "zero_quantity")
         ELSE IF s.current_position_size + trade_qty > effective_max_pos(price)
              THEN Path(Notify(s1, "Max Pos Reached"), "max_position")
         ELSE
           LET direction == entry_signal(rates.spread_apr)
               s2 == IF direction # NONE
                     THEN execute_dual_leg_entry(su, direction, trade_qty, outs, revs)
                     ELSE Path(su, "no_signal")
           IN [s2 EXCEPT !.error_backoff = InitialBackoff]

(* A cycle that goes on to the entry logic when its exit has left it flat. *)
exit_then_entry(s, rates, price, in_window, real_positions, outs, revs, fin) ==
    IF s.current_position # NONE /\ in_window
    THEN LET su == use_spread(s, rates)
             x == IF (s.current_position = SHORT_PRIMARY_LONG_SECONDARY
                        /\ rates.spread_apr < 0)
                     \/ (s.current_position = LONG_PRIMARY_SHORT_SECONDARY
                           /\ rates.spread_apr > 0)
                  THEN execute_position_exit(su, s.current_position, real_positions,
                                             outs, fin)
                  ELSE Path(su, "holding")
         IN IF x.current_position = NONE
            THEN entry_logic(x, rates, price, real_positions.pending_orders_primary,
                             outs, revs)
            ELSE x
    ELSE IF s.current_position # NONE THEN Path(s, "holding_outside_window")
    ELSE IF ~in_window THEN Path(s, "flat_outside_window")
    ELSE entry_logic(s, rates, price, real_positions.pending_orders_primary,
                     outs, revs)

(* check_opportunity from the exit logic on, after reconciliation. *)
exit_or_entry(s, rates, price, in_window, real_positions, outs, revs, fin) ==
    IF s.current_position # NONE /\ in_window
    THEN LET su == use_spread(s, rates)
         IN IF s.current_position = SHORT_PRIMARY_LONG_SECONDARY /\ rates.spread_apr < 0
            THEN execute_position_exit(su, SHORT_PRIMARY_LONG_SECONDARY, real_positions,
                                       outs, fin)
            ELSE IF s.current_position = LONG_PRIMARY_SHORT_SECONDARY /\ rates.spread_apr > 0
            THEN execute_position_exit(su, LONG_PRIMARY_SHORT_SECONDARY, real_positions,
                                       outs, fin)
            ELSE Path(su, "holding")
    ELSE IF s.current_position # NONE THEN Path(s, "holding_outside_window")
    ELSE IF ~in_window THEN Path(s, "flat_outside_window")
    ELSE entry_logic(s, rates, price, real_positions.pending_orders_primary,
                     outs, revs)

(* check_opportunity. in.rate_p, in.rate_s: the funding-rate fetches; in.ticker: the
   primary's ticker; in.q: the position queries; in.minute: the wall-clock minute;
   in.outs, in.revs: the outcomes of the orders the cycle may submit; in.fin: the
   ticker fetches after a completed exit. *)
check_opportunity(s, in) ==
    LET c == [s EXCEPT !.cyc = NewCyc(s, "check_opportunity")]
    IN IF error_cooldown_active(c) THEN Path(Notify(c, "Cooldown"), "cooldown")
       ELSE IF quarantine_gate(c) THEN Path(Notify(c, "QUARANTINED"), "quarantined")
       ELSE
         LET r_primary == IF in.rate_p.ok THEN in.rate_p.rate ELSE 0
             r_secondary == IF in.rate_s.ok THEN in.rate_s.rate ELSE 0
             failed == (IF in.rate_p.ok THEN {} ELSE {Primary})
                         \cup (IF in.rate_s.ok THEN {} ELSE {Secondary})
             c1 == [c EXCEPT !.cyc.reads = {"rates", "ticker"}]
         IN IF in.ticker # "ok" THEN handle_exception(c1, in.ticker = "exc429")
            ELSE
              LET price == in.price
                  apr_primary == to_apr(r_primary)
                  apr_secondary == to_apr(r_secondary)
                  spread_apr == pair_spread(apr_primary, apr_secondary)
                  rates == [spread_apr |-> spread_apr, failed |-> failed]
                  c2 == [c1 EXCEPT !.cyc.reads = @ \cup {"positions"}]
              IN IF verify_failed(in.q)
                 THEN stall_on_sync_error(
                          [c2 EXCEPT !.cyc.sync_failed = failed_queries(in.q)])
                 ELSE
                   LET real_positions == verify_positions(in.q)
                       in_window == is_in_window(in.minute)
                       c3 == [record_sync(c2, real_positions)
                                EXCEPT !.cyc.minute = in.minute,
                                       !.cyc.reads = @ \cup {"clock"}]
                       c4 == IF in_window THEN c3 ELSE Notify(c3, "Waiting (Window)")
                       cr == reconcile(c4, real_positions.real_pos_primary,
                                       real_positions.real_pos_secondary)
                       c5 == [cr EXCEPT !.cyc.synced_position = cr.current_position,
                                        !.cyc.synced_size = cr.current_position_size]
                       c6 == Notify(c5, IF c5.current_position = NONE THEN "Scanning"
                                        ELSE "Monitoring Exit")
                   IN exit_or_entry(c6, rates, price, in_window, real_positions,
                                    in.outs, in.revs, in.fin)

(* on_start: strict position sync; a failed query stops the strategy before its loop. *)
on_start(s, q) ==
    LET c == Notify([s EXCEPT !.is_running = TRUE,
                              !.cyc = [NewCyc(s, "on_start") EXCEPT !.reads = {"positions"}]],
                    "Starting...")
    IN IF verify_failed(q)
       THEN Path([c EXCEPT !.cyc.sync_failed = failed_queries(q)], "start_failed")
       ELSE LET real_positions == verify_positions(q)
            IN Path(reconcile(record_sync(c, real_positions),
                              real_positions.real_pos_primary,
                              real_positions.real_pos_secondary), "started")

-----------------------------------------------------------------------------
(* DynamicFundingArbitrageStrategy *)

(* The scan of sync_state_from_exchanges over the query results, in the order of
   enabled_ex: a venue whose query raised is skipped (continue); acc holds
   best_short_ex, max_short_size, best_long_ex, max_long_size. *)
RECURSIVE scan_positions(_, _, _, _)
scan_positions(pos, results, i, acc) ==
    IF i > Len(EnabledEx) THEN acc
    ELSE LET ex_name == EnabledEx[i]
             size == pos[ex_name]
         IN IF results[ex_name] = "exc" THEN scan_positions(pos, results, i + 1, acc)
            ELSE IF size < -Eps /\ Abs(size) > acc.max_short_size
                 THEN scan_positions(pos, results, i + 1,
                        [acc EXCEPT !.max_short_size = Abs(size), !.best_short_ex = ex_name])
            ELSE IF size > Eps /\ size > acc.max_long_size
                 THEN scan_positions(pos, results, i + 1,
                        [acc EXCEPT !.max_long_size = size, !.best_long_ex = ex_name])
            ELSE scan_positions(pos, results, i + 1, acc)

NoVenue == "none"

(* A state update that tracks the larger of the two legs. *)
track_larger_leg(s, found) ==
    IF found.best_short_ex # NoVenue /\ found.best_long_ex # NoVenue
    THEN [s EXCEPT !.has_unbalanced_position = FALSE,
                   !.current_pair = <<found.best_short_ex, found.best_long_ex>>,
                   !.current_position_size = Max(found.max_short_size, found.max_long_size)]
    ELSE IF found.best_short_ex # NoVenue \/ found.best_long_ex # NoVenue
    THEN [s EXCEPT !.current_pair = NoPair, !.current_position_size = 0,
                   !.has_unbalanced_position = TRUE]
    ELSE [s EXCEPT !.has_unbalanced_position = FALSE,
                   !.current_pair = NoPair, !.current_position_size = 0]

(* A state update that takes a lone leg for no position at all. *)
lone_leg_as_flat(s, found) ==
    IF found.best_short_ex # NoVenue /\ found.best_long_ex # NoVenue
    THEN [s EXCEPT !.has_unbalanced_position = FALSE,
                   !.current_pair = <<found.best_short_ex, found.best_long_ex>>,
                   !.current_position_size = Min(found.max_short_size, found.max_long_size)]
    ELSE [s EXCEPT !.has_unbalanced_position = FALSE,
                   !.current_pair = NoPair, !.current_position_size = 0]

(* The state update that ends sync_state_from_exchanges. *)
apply_sync(s, found) ==
    IF found.best_short_ex # NoVenue /\ found.best_long_ex # NoVenue
    THEN [s EXCEPT !.has_unbalanced_position = FALSE,
                   !.current_pair = <<found.best_short_ex, found.best_long_ex>>,
                   !.current_position_size = Min(found.max_short_size, found.max_long_size)]
    ELSE IF found.best_short_ex # NoVenue \/ found.best_long_ex # NoVenue
    THEN [s EXCEPT !.current_pair = NoPair, !.current_position_size = 0,
                   !.has_unbalanced_position = TRUE]
    ELSE [s EXCEPT !.has_unbalanced_position = FALSE,
                   !.current_pair = NoPair, !.current_position_size = 0]

sync_state_from_exchanges(s, results, pos) ==
    LET found == scan_positions(pos, results, 1,
                     [best_short_ex |-> NoVenue, max_short_size |-> 0,
                      best_long_ex |-> NoVenue, max_long_size |-> 0])
        s1 == [s EXCEPT !.cyc.reported = [v \in Venues |->
                                            IF results[v] = "ok" THEN pos[v] ELSE 0],
                        !.cyc.synced = \A v \in Venues : results[v] = "ok",
                        !.cyc.sync_failed = {v \in Venues : results[v] # "ok"}]
    IN apply_sync(s1, found)

dyn_on_start(s, results, pos) ==
    Path(sync_state_from_exchanges(
             [s EXCEPT !.is_running = TRUE,
                       !.cyc = [NewCyc(s, "on_start") EXCEPT !.reads = {"positions"}]],
             results, pos),
         "started")

(* The success check of execute_entry and execute_exit: an exception, a dict with a
   truthy "error", or None fails the whole operation. *)
dyn_success(results) ==
    \A i \in 1..Len(results) : results[i] \notin {"exc", "error", "none"}

(* The quantity of execute_entry: the notional over the price, as it comes. *)
dyn_qty(usd, price) == IF price > 0 THEN (usd * Unit) \div price ELSE 0

(* An entry that places its orders whatever the simulation flag says. *)
entry_ignoring_simulation(s, pair, price, outs) ==
    LET qty == dyn_qty(order_size_usd, price)
        s0 == [s EXCEPT !.cyc.entry_pair = pair, !.cyc.entry_qty = qty,
                        !.cyc.price = price, !.cyc.reads = @ \cup {"price"},
                        !.cyc.entry_size_before = s.current_position_size]
    IN IF qty <= 0 THEN Path(s0, "zero_quantity")
       ELSE LET s1 == create_order(s0, pair[1], "SELL", qty, "entry", outs.p)
                s2 == create_order(s1, pair[2], "BUY", qty, "entry", outs.s)
            IN IF dyn_success(<<outs.p, outs.s>>)
               THEN Path([s2 EXCEPT !.current_pair = pair, !.current_position_size = qty,
                                    !.has_unbalanced_position = FALSE], "entry_ok")
               ELSE Path([s2 EXCEPT !.has_unbalanced_position = TRUE], "entry_failed")

(* execute_entry *)
dyn_execute_entry(s, pair, price, outs) ==
    LET qty == dyn_qty(order_size_usd, price)
        s0 == [s EXCEPT !.cyc.entry_pair = pair, !.cyc.entry_qty = qty,
                        !.cyc.price = price, !.cyc.reads = @ \cup {"price"},
                        !.cyc.entry_size_before = s.current_position_size]
    IN IF qty <= 0 THEN Path(s0, "zero_quantity")
       ELSE IF is_simulation
       THEN Path([s0 EXCEPT !.current_pair = pair, !.current_position_size = qty],
                 "entry_simulated")
       ELSE LET s1 == create_order(s0, pair[1], "SELL", qty, "entry", outs.p)
                s2 == create_order(s1, pair[2], "BUY", qty, "entry", outs.s)
            IN IF dyn_success(<<outs.p, outs.s>>)
               THEN Path([s2 EXCEPT !.current_pair = pair, !.current_position_size = qty,
                                    !.has_unbalanced_position = FALSE], "entry_ok")
               ELSE Path([s2 EXCEPT !.has_unbalanced_position = TRUE], "entry_failed")

(* execute_exit *)
dyn_execute_exit(s, outs) ==
    IF s.current_pair = NoPair THEN s
    ELSE LET qty == s.current_position_size
             s0 == [s EXCEPT !.cyc.exit_sizes = <<qty, qty>>]
         IN IF is_simulation
            THEN Path([s0 EXCEPT !.current_pair = NoPair, !.current_position_size = 0],
                      "exit_simulated")
            ELSE LET s1 == create_order(s0, s.current_pair[1], "BUY", qty, "exit", outs.p)
                     s2 == create_order(s1, s.current_pair[2], "SELL", qty, "exit", outs.s)
                 IN IF dyn_success(<<outs.p, outs.s>>)
                    THEN Path([s2 EXCEPT !.current_pair = NoPair,
                                         !.current_position_size = 0], "exit_ok")
                    ELSE Path(s2, "exit_failed")

(* The venues whose rate fetch returned a non-empty result, in the order of enabled_ex. *)
RECURSIVE reporting_from(_, _)
reporting_from(rates, i) ==
    IF i > Len(EnabledEx) THEN <<>>
    ELSE (IF rates[EnabledEx[i]].ok THEN <<EnabledEx[i]>> ELSE <<>>)
           \o reporting_from(rates, i + 1)

(* A search that settles for the first two reporting venues, in that order. *)
first_pair(ex_apr, names, i, j, best) ==
    IF Len(names) >= 2
    THEN [best_spread |-> pair_spread(ex_apr[names[1]], ex_apr[names[2]]),
          best_pair |-> <<names[1], names[2]>>]
    ELSE best

(* The double loop that finds the best spread: ex1 the potential short, ex2 the
   potential long, a later pair replacing the best only on a strictly larger spread. *)
RECURSIVE find_best(_, _, _, _, _)
find_best(ex_apr, names, i, j, best) ==
    IF i > Len(names) THEN best
    ELSE IF j > Len(names) THEN find_best(ex_apr, names, i + 1, 1, best)
    ELSE IF i = j THEN find_best(ex_apr, names, i, j + 1, best)
    ELSE LET spread == pair_spread(ex_apr[names[i]], ex_apr[names[j]])
         IN IF spread > best.best_spread
            THEN find_best(ex_apr, names, i, j + 1,
                           [best_spread |-> spread, best_pair |-> <<names[i], names[j]>>])
            ELSE find_best(ex_apr, names, i, j + 1, best)

dyn_in_window(minute) ==
    LET minutes_from_hour == IF minute <= 30 THEN minute ELSE 60 - minute
    IN minutes_from_hour <= ExecutionWindowMinutes

(* Step 4 of check_opportunity: the entry/exit logic. apr_of(v) is ex_apr.get(v, 0).
   The exit branch never reads the clock; the wall-clock minute at which it runs is
   recorded all the same ("now"). *)
dyn_entry_exit(s, ex_apr, names, best, price, minute, outs) ==
    LET apr_of(v) == IF \E k \in 1..Len(names) : names[k] = v THEN ex_apr[v] ELSE 0
    IN IF s.current_pair # NoPair
       THEN LET current_spread == pair_spread(apr_of(s.current_pair[1]),
                                              apr_of(s.current_pair[2]))
                s1 == [s EXCEPT !.cyc.spread = current_spread, !.cyc.minute = minute,
                                !.cyc.reads = @ \cup {"now"}]
            IN IF current_spread < ExitThresholdApr THEN dyn_execute_exit(s1, outs)
               ELSE Path(s1, "holding")
       ELSE IF ~s.has_unbalanced_position
       THEN IF best.best_spread > EntryThresholdApr
            THEN IF dyn_in_window(minute)
                 THEN dyn_execute_entry([s EXCEPT !.cyc.minute = minute,
                                                  !.cyc.reads = @ \cup {"clock"}],
                                        best.best_pair, price, outs)
                 ELSE Path([s EXCEPT !.cyc.minute = minute,
                                     !.cyc.reads = @ \cup {"clock"}], "flat_outside_window")
            ELSE Path(s, "no_signal")
       ELSE Path(s, "unbalanced")

(* The re-entrancy guard at the head of check_opportunity: a call made while a cycle
   is in progress returns at once. *)
dyn_guard(s) == s.is_checking

(* The try block of check_opportunity, entered with is_checking set. in.rates: the
   funding-rate fetch of each venue; in.ticker: the ticker of the first enabled venue;
   in.minute; in.outs: the outcomes of the two orders the cycle may submit. *)
dyn_try_block(s, in) ==
      LET c == [s EXCEPT !.cyc = NewCyc(s, "check_opportunity")]
          names == reporting_from(in.rates, 1)
          c1 == [c EXCEPT !.cyc.reads = {"rates"},
                          !.cyc.rate_failed = {v \in Venues : ~in.rates[v].ok},
                          !.cyc.aprs = [v \in Venues |-> IF in.rates[v].ok
                                                         THEN to_apr(in.rates[v].rate)
                                                         ELSE 0]]
      IN IF names = <<>> THEN Path(c1, "no_rates")
         ELSE
           LET ex_apr == [v \in Venues |-> to_apr(in.rates[v].rate)]
               best == find_best(ex_apr, names, 1, 1,
                                 [best_spread |-> InitialBestSpread, best_pair |-> NoPair])
               ct == [c1 EXCEPT !.cyc.reads = @ \cup {"ticker"},
                                !.cyc.spread = best.best_spread,
                                !.cyc.best_pair = best.best_pair]
           IN IF in.ticker # "ok" THEN Path(ct, "error")
              ELSE LET price == in.price
                       c3 == Notify(ct, IF ct.current_pair # NoPair THEN "Arb"
                                        ELSE "Monitoring")
                   IN dyn_entry_exit(c3, ex_apr, names, best, price, in.minute, in.outs)

(* A cycle without the finally clause: the flag stays as the cycle left it. *)
finally_missing(s) == s

(* The finally clause of check_opportunity. *)
finally_clause(s) == [s EXCEPT !.is_checking = FALSE]

(* check_opportunity past its guard: the try block, then the finally clause, whether
   the block returned early, ran to its end or caught an exception. *)
dyn_check_opportunity(s, in) == finally_clause(dyn_try_block(s, in))

-----------------------------------------------------------------------------
(* run_strategy_loop: construction, on_start, then one check_opportunity per tick. *)

(* No handler is running and none has run since the last sleep. *)
IdleCyc ==
    [NewCyc([current_position |-> NONE, current_pair |-> NoPair,
             current_position_size |-> 0, has_unbalanced_position |-> FALSE,
             quarantine_mode |-> FALSE, error_backoff |-> InitialBackoff,
             error_age |-> AgeCap, execution_age |-> ExecutionCooldown,
             order_age |-> ExecutionCooldown, price_error_last |-> FALSE], "none")
     EXCEPT !.path = "idle"]

PosOf(l, b, e) == ("lighter" :> l) @@ ("backpack" :> b) @@ ("edgex" :> e)

(* What the venues may report for the traded symbol when they are asked: flat,
   hedged either way, one leg only, skewed legs, dust below the significance
   threshold. *)
PosReportsTwo ==
    {PosOf(0, 0, 0), PosOf(-Unit, Unit, 0), PosOf(Unit, -Unit, 0), PosOf(-Unit, 0, 0),
     PosOf(0, -Unit, 0), PosOf(-2 * Unit, Unit, 0), PosOf(Eps, 0, 0),
     PosOf(-Unit, -Unit, 0)}

PosReportsDyn ==
    {PosOf(0, 0, 0), PosOf(-Unit, Unit, 0), PosOf(Unit, 0, -Unit), PosOf(-Unit, 0, 0),
     PosOf(0, Unit, 0), PosOf(-2 * Unit, Unit, 0), PosOf(-Unit, Unit, 2 * Unit),
     PosOf(-Unit, -2 * Unit, Unit), PosOf(Eps, 0, 0)}

(* No sizing or spread function has been applied on its own. *)
NoCalc == [op |-> "none", price |-> 0, l_step |-> 0, b_step |-> 0, rate_a |-> 0,
           rate_b |-> 0, qty |-> 0, spread_ab |-> 0, spread_ba |-> 0]

(* The strategy as run_strategy_loop constructs it. *)
Constructed ==
    /\ variant \in {"two", "dyn"}
    /\ is_simulation \in BOOLEAN
    /\ auto_revert \in (IF variant = "two" /\ ~is_simulation THEN BOOLEAN ELSE {FALSE})
    /\ order_size_usd \in (IF variant = "dyn" THEN OrderSizes ELSE {OrderSizeUsd})
    /\ main = "running"
    /\ monitor_task = "running"
    /\ loop = "created"
    /\ is_running = FALSE
    /\ in_flight = 0
    /\ current_position = NONE
    /\ current_pair = NoPair
    /\ current_position_size = 0
    /\ has_unbalanced_position = FALSE
    /\ is_checking = FALSE
    /\ quarantine_mode = FALSE
    /\ quarantine_reason = ""
    /\ error_backoff = InitialBackoff
    /\ error_age = AgeCap
    /\ execution_age = ExecutionCooldown
    /\ order_age = ExecutionCooldown
    /\ price_error_last = FALSE
    /\ orders = <<>>
    /\ updates = <<>>
    /\ cyc = IdleCyc

Init == Constructed /\ calc = NoCalc

(* The handler's result becomes the next state. *)
Commit(s, next_loop) ==
    /\ loop' = next_loop
    /\ is_running' = s.is_running
    /\ current_position' = s.current_position
    /\ current_pair' = s.current_pair
    /\ current_position_size' = s.current_position_size
    /\ has_unbalanced_position' = s.has_unbalanced_position
    /\ is_checking' = s.is_checking
    /\ quarantine_mode' = s.quarantine_mode
    /\ quarantine_reason' = s.quarantine_reason
    /\ error_backoff' = s.error_backoff
    /\ error_age' = s.error_age
    /\ execution_age' = s.execution_age
    /\ order_age' = (IF s.orders # <<>> THEN 0 ELSE s.order_age)
    /\ price_error_last' = (s.cyc.path = "price_error")
    /\ orders' = s.orders
    /\ updates' = s.updates
    /\ cyc' = s.cyc
    /\ UNCHANGED <<variant, is_simulation, auto_revert, order_size_usd, main, monitor_task,
                   calc>>

(* A loop that calls check_opportunity again while the previous call is running. *)
tick_any(l) == l \in {"ready", "checking"}

(* run_strategy_loop awaits check_opportunity and then the sleep before it calls
   check_opportunity again. *)
tick_due(l) == l = "ready"

(* The ways a cycle ends badly: an exception, a rate limit, a failed reconciliation,
   no funding rate, a failed entry or exit, a partial fill with or without revert. *)
FailurePaths == {"error", "rate_limited", "sync_error", "no_rates", "entry_failed",
                 "exit_failed", "entry_reverted", "entry_revert_failed", "entry_partial"}

(* A loop that gives up after a cycle that ended badly. *)
stop_on_failure(s) == IF s.cyc.path \in FailurePaths THEN "stopped" ELSE "ran"

(* check_opportunity handles its exceptions itself and returns; the loop goes on to
   the sleep whatever the cycle did. *)
after_cycle(s) == "ran"

(* The inputs of a handler run; an input is drawn from its set only in the runs that
   use it (cyc.reads, orders), and is the default otherwise. *)
OutPairs == [p : Outcomes, s : Outcomes]
RevertOutcomes == {"ok", "error", "exc"}
(* A revert attempt after a failed one: the venue fills it, or fails it the way it
   failed the attempt before (the error branch and the except branch of the retry loop
   both log and go on to the next attempt). *)
RetryOutcomes(prev) == {"ok", prev}
DefaultOuts == [p |-> "ok", s |-> "ok"]
DefaultRevs == [i \in 1..RevertRetries |-> "ok"]
NumReverts(os) == Cardinality({i \in 1..Len(os) : os[i].kind = "revert"})
QueryResults == [primary : QueryOutcomes, secondary : QueryOutcomes,
                 pending_query : QueryOutcomes]
DefaultRate == [ok |-> TRUE, rate |-> 0]
DefaultQuery == [primary |-> "ok", secondary |-> "ok", pending_query |-> "ok",
                 pos |-> PosOf(0, 0, 0), pending |-> 0]
WithResults(q, r) == [q EXCEPT !.primary = r.primary, !.secondary = r.secondary,
                               !.pending_query = r.pending_query]
DefaultFetch == [ticker |-> "ok", price |-> 90]
ExitFetches == {DefaultFetch, [ticker |-> "exc_secondary", price |-> 90],
                [ticker |-> "exc", price |-> 0]}
DefaultIn == [rate_p |-> DefaultRate, rate_s |-> DefaultRate, ticker |-> "ok",
              price |-> 100, q |-> DefaultQuery, minute |-> 0, outs |-> DefaultOuts,
              revs |-> DefaultRevs, fin |-> DefaultFetch]
DynDefaultIn == [rates |-> [v \in Venues |-> DefaultRate], ticker |-> "ok",
                 price |-> 100, minute |-> 0, outs |-> DefaultOuts]
Drawn(read, S, default) == IF read THEN S ELSE {default}

OnStart ==
    /\ variant = "two"
    /\ loop = "created"
    /\ \E r \in QueryResults :
       LET q1 == WithResults(DefaultQuery, r)
       IN \E pos \in Drawn(on_start(St, q1).cyc.synced, PosReportsTwo, DefaultQuery.pos) :
          LET s == on_start(St, [q1 EXCEPT !.pos = pos])
          IN Commit(s, IF s.cyc.path = "start_failed" THEN "stopped" ELSE "ready")
    /\ UNCHANGED in_flight

(* The loop calls check_opportunity: the call starts unless the N-venue guard turns
   it away. *)
Tick ==
    /\ main = "running"
    /\ tick_due(loop)
    /\ in_flight < MaxInFlight
    /\ IF variant = "dyn" /\ dyn_guard(St)
       THEN UNCHANGED vars
       ELSE /\ loop' = "checking"
            /\ in_flight' = in_flight + 1
            /\ is_checking' = (variant = "dyn")
            /\ UNCHANGED <<variant, is_simulation, auto_revert, order_size_usd, main,
                           monitor_task, is_running, current_position, current_pair,
                           current_position_size, has_unbalanced_position,
                           quarantine_mode, quarantine_reason, error_backoff, error_age,
                           execution_age, order_age, price_error_last, orders, updates,
                           cyc, calc>>

CheckOpportunity ==
    /\ main = "running"
    /\ variant = "two"
    /\ loop = "checking"
    /\ in_flight' = in_flight - 1
    /\ LET H(in) == check_opportunity(St, in)
       IN LET in1 == DefaultIn
          IN \E ticker \in Drawn("ticker" \in H(in1).cyc.reads, TickerKinds, "ok") :
          LET in2 == [in1 EXCEPT !.ticker = ticker]
          IN \E r \in Drawn("positions" \in H(in2).cyc.reads, QueryResults,
                            [primary |-> "ok", secondary |-> "ok", pending_query |-> "ok"]) :
          LET in3 == [in2 EXCEPT !.q = WithResults(@, r)]
          IN \E pos \in Drawn(H(in3).cyc.synced, PosReportsTwo, DefaultQuery.pos) :
          LET in4 == [in3 EXCEPT !.q.pos = pos]
          IN \E minute \in Drawn("clock" \in H(in4).cyc.reads, Minutes, 0) :
          LET in5 == [in4 EXCEPT !.minute = minute]
          IN \E pending \in Drawn("pending" \in H(in5).cyc.reads, PendingCounts, 0) :
          LET in6 == [in5 EXCEPT !.q.pending = pending]
          IN \E price \in Drawn("price" \in H(in6).cyc.reads, Prices, 100) :
          LET in6p == [in6 EXCEPT !.price = price]
          IN \E rate_p \in Drawn("spread" \in H(in6p).cyc.reads, RateResults, DefaultRate),
                rate_s \in Drawn("spread" \in H(in6p).cyc.reads, RateResults, DefaultRate) :
          LET in7 == [in6p EXCEPT !.rate_p = rate_p, !.rate_s = rate_s]
          IN \E outs \in Drawn(H(in7).orders # <<>>, OutPairs, DefaultOuts) :
          LET in8 == [in7 EXCEPT !.outs = outs]
          IN \E r1 \in Drawn(NumReverts(H(in8).orders) >= 1, RevertOutcomes, "ok") :
          LET in9 == [in8 EXCEPT !.revs[1] = r1]
          IN \E r2 \in Drawn(NumReverts(H(in9).orders) >= 2, RetryOutcomes(r1), "ok") :
          LET in10 == [in9 EXCEPT !.revs[2] = r2]
          IN \E r3 \in Drawn(NumReverts(H(in10).orders) >= 3, RetryOutcomes(r2), "ok") :
          LET in11 == [in10 EXCEPT !.revs[3] = r3]
          IN \E fin \in Drawn("exit_ticker" \in H(in11).cyc.reads, ExitFetches,
                              DefaultFetch) :
             LET s == H([in11 EXCEPT !.fin = fin])
             IN Commit(s, after_cycle(s))

DynOnStart ==
    /\ variant = "dyn"
    /\ loop = "created"
    /\ \E results \in [Venues -> QueryOutcomes], pos \in PosReportsDyn :
         Commit(dyn_on_start(St, results, pos), "ready")
    /\ UNCHANGED in_flight

DynCheckOpportunity ==
    /\ main = "running"
    /\ variant = "dyn"
    /\ loop = "checking"
    /\ in_flight' = in_flight - 1
    /\ LET H(in) == dyn_check_opportunity(St, in)
       IN \E rates \in [Venues -> RateResults] :
          LET in1 == [DynDefaultIn EXCEPT !.rates = rates]
          IN \E ticker \in Drawn("ticker" \in H(in1).cyc.reads, TickerKinds, "ok") :
          LET in2 == [in1 EXCEPT !.ticker = ticker]
          IN \E minute \in Drawn({"clock", "now"} \cap H(in2).cyc.reads # {}, Minutes, 0) :
          LET in3 == [in2 EXCEPT !.minute = minute]
          IN \E price \in Drawn("price" \in H(in3).cyc.reads, Prices, 100) :
          LET in4 == [in3 EXCEPT !.price = price]
          IN \E outs \in Drawn(H(in4).orders # <<>>, OutPairs, DefaultOuts) :
             LET s == H([in4 EXCEPT !.outs = outs])
             IN Commit(s, after_cycle(s))

(* asyncio.sleep(60) between two cycles: the clocks advance, and the record of the
   cycle that ended is closed. *)
Sleep ==
    /\ main = "running"
    /\ loop = "ran"
    /\ loop' = "ready"
    /\ error_age' = Min(AgeCap, error_age + TickSeconds)
    /\ execution_age' = Min(ExecutionCooldown, execution_age + TickSeconds)
    /\ order_age' = Min(ExecutionCooldown, order_age + TickSeconds)
    /\ price_error_last' = price_error_last
    /\ orders' = <<>>
    /\ updates' = <<>>
    /\ cyc' = IdleCyc
    /\ UNCHANGED <<variant, is_simulation, auto_revert, order_size_usd, main, monitor_task,
                   in_flight, is_running, current_position, current_pair,
                   current_position_size, has_unbalanced_position, is_checking,
                   quarantine_mode, quarantine_reason, error_backoff, calc>>

(* A finally clause that goes on to close the venues without awaiting the tasks. *)
await_skipped(l, m) == TRUE

(* The asyncio.gather of main's finally clause, over the tasks, returns when the
   strategy task and the balance monitor are done. *)
gather_done(l, m) == l \in {"cancelled", "stopped"} /\ m = "cancelled"

(* main's finally clause begins: cancel() is called on the strategy task and on the
   balance monitor, which are in the sleep between two cycles, inside a cycle or
   already ended. *)
Shutdown ==
    /\ main = "running"
    /\ loop \in {"ready", "checking", "stopped"}
    /\ main' = "cleanup"
    /\ orders' = <<>>
    /\ updates' = <<>>
    /\ cyc' = IdleCyc
    /\ UNCHANGED <<variant, is_simulation, auto_revert, order_size_usd, monitor_task, loop,
                   in_flight, is_running, current_position, current_pair,
                   current_position_size, has_unbalanced_position, is_checking,
                   quarantine_mode, quarantine_reason, error_backoff, error_age,
                   execution_age, order_age, price_error_last, calc>>

(* The strategy task gets CancelledError at the await it is suspended on, the sleep or
   a call of the cycle: run_strategy_loop ends; the finally clause of the N-venue
   check_opportunity clears is_checking on the way out. *)
Cancel ==
    /\ main = "cleanup"
    /\ loop \in {"ready", "checking"}
    /\ loop' = "cancelled"
    /\ in_flight' = (IF loop = "checking" THEN in_flight - 1 ELSE in_flight)
    /\ is_checking' = (IF loop = "checking" THEN FALSE ELSE is_checking)
    /\ UNCHANGED <<variant, is_simulation, auto_revert, order_size_usd, main, monitor_task,
                   is_running, current_position, current_pair, current_position_size,
                   has_unbalanced_position, quarantine_mode, quarantine_reason,
                   error_backoff, error_age, execution_age, order_age, price_error_last,
                   orders, updates, cyc, calc>>

(* The balance monitor gets CancelledError and ends. *)
MonitorCancelled ==
    /\ main = "cleanup"
    /\ monitor_task = "running"
    /\ monitor_task' = "cancelled"
    /\ UNCHANGED <<variant, is_simulation, auto_revert, order_size_usd, main, loop,
                   in_flight, is_running, current_position, current_pair,
                   current_position_size, has_unbalanced_position, is_checking,
                   quarantine_mode, quarantine_reason, error_backoff, error_age,
                   execution_age, order_age, price_error_last, orders, updates, cyc, calc>>

(* main has awaited the tasks and closes every venue connection. *)
CloseVenues ==
    /\ main = "cleanup"
    /\ gather_done(loop, monitor_task)
    /\ main' = "closed"
    /\ UNCHANGED <<variant, is_simulation, auto_revert, order_size_usd, monitor_task, loop,
                   in_flight, is_running, current_position, current_pair,
                   current_position_size, has_unbalanced_position, is_checking,
                   quarantine_mode, quarantine_reason, error_backoff, error_age,
                   execution_age, order_age, price_error_last, orders, updates, cyc, calc>>

Next ==
    \/ OnStart
    \/ DynOnStart
    \/ Tick
    \/ CheckOpportunity
    \/ DynCheckOpportunity
    \/ Sleep
    \/ Shutdown
    \/ Cancel
    \/ MonitorCancelled
    \/ CloseVenues

Spec == Init /\ [][Next]_vars

(* The event loop runs the loop's coroutine whenever it is ready: a sleep that was
   started ends, a call that is due is made, and a task that was cancelled gets its
   CancelledError. A shutdown is never forced. *)
Fairness ==
    /\ WF_vars(Sleep)
    /\ WF_vars(Tick)
    /\ WF_vars(Cancel)

SpecLive == Init /\ [][Next]_vars /\ Fairness

-----------------------------------------------------------------------------
(* The sizing and spread functions on their own, over prices the sanity check admits,
   step sizes that are and are not powers of ten, and funding rates of either sign. *)

PurePrices == {20, 100, 150, 240, 333}
PureSteps == {0, 1000, 10000, 25000, 30000}
PureRates == {-6, 0, 6, 13}

PureInputs ==
    {[NoCalc EXCEPT !.price = p, !.l_step = l, !.b_step = b, !.rate_a = ra, !.rate_b = rb] :
        p \in PurePrices, l \in PureSteps, b \in PureSteps, ra \in PureRates,
        rb \in PureRates}

InitPure == Constructed /\ calc \in PureInputs

Applied(c) ==
    /\ calc.op = "none"
    /\ calc' = c
    /\ UNCHANGED <<variant, is_simulation, auto_revert, order_size_usd, main, monitor_task,
                   loop, in_flight, is_running, current_position, current_pair,
                   current_position_size, has_unbalanced_position, is_checking,
                   quarantine_mode, quarantine_reason, error_backoff, error_age,
                   execution_age, order_age, price_error_last, orders, updates, cyc>>

(* The dynamic sizing of the two-venue entry. *)
ApplyCalcSize ==
    /\ validate_price_sanity(calc.price)
    /\ Applied([calc EXCEPT !.op = "calc_size",
                            !.qty = calc_size(OrderSizeUsd, calc.price,
                                              common_step_of(calc.l_step, calc.b_step))])

(* The sizing of the N-venue entry. *)
ApplyDynQty ==
    Applied([calc EXCEPT !.op = "dyn_qty", !.qty = dyn_qty(OrderSizeUsd, calc.price)])

(* The spread of a pair of venues, taken both ways round. *)
ApplySpread ==
    Applied([calc EXCEPT !.op = "pair_spread",
                         !.spread_ab = pair_spread(to_apr(calc.rate_a), to_apr(calc.rate_b)),
                         !.spread_ba = pair_spread(to_apr(calc.rate_b), to_apr(calc.rate_a))])

NextPure == ApplyCalcSize \/ ApplyDynQty \/ ApplySpread

SpecPure == InitPure /\ [][NextPure]_vars

-----------------------------------------------------------------------------
(* Properties *)

EntryOrders == {i \in 1..Len(orders) : orders[i].kind = "entry"}
RevertOrders == {i \in 1..Len(orders) : orders[i].kind = "revert"}
TradeOrders == {i \in 1..Len(orders) : orders[i].kind \in {"entry", "exit"}}
Filled(i) == orders[i].res = "ok"

(* An entry of which exactly one leg filled and the other did not. *)
OneEntryLegFilled ==
    /\ Cardinality(EntryOrders) = 2
    /\ Cardinality({i \in EntryOrders : Filled(i)}) = 1

(* The venues that reported a significant position to the handler that just ran. *)
LegsReported == {v \in Venues : Abs(cyc.reported[v]) > Eps}

(* The strategy tracks a hedged position and flags nothing. *)
TracksHedge ==
    IF variant = "two" THEN current_position # NONE /\ ~quarantine_mode
    ELSE current_pair # NoPair /\ ~has_unbalanced_position

StartedUp == cyc.op = "on_start" /\ cyc.path = "started"
CycleEnded == cyc.op = "check_opportunity" /\ loop = "ran"

(* C1: at the end of a startup sync or of a cycle in which the venues reported their
   positions, a strategy that tracks a hedged position with no flag set has not been
   told of a position on one leg only. *)
C1_NoNakedHedge ==
    ((StartedUp \/ CycleEnded) /\ cyc.synced /\ TracksHedge)
        => Cardinality(LegsReported) # 1

(* C2: in the two-venue strategy no step clears quarantine_mode, and a step taken
   while it is set submits no order. *)
C2_QuarantineTerminal ==
    [][(variant = "two" /\ quarantine_mode) => (quarantine_mode' /\ orders' = <<>>)]_vars

C2_Witness ==
    /\ variant = "two"
    /\ CycleEnded
    /\ cyc.pre_quarantine
    /\ cyc.path = "quarantined"

(* C3: a two-venue cycle in which a query of verify_positions raised leaves
   current_position and current_position_size as they were before the cycle, submits
   no order and reports SYNC_ERROR. *)
C3_SyncFailureStalls ==
    (variant = "two" /\ CycleEnded /\ cyc.sync_failed # {})
        => /\ current_position = cyc.pre_position
           /\ current_position_size = cyc.pre_size
           /\ orders = <<>>
           /\ \E i \in 1..Len(updates) : updates[i] = "SYNC_ERROR"

C3_Witness ==
    /\ variant = "two"
    /\ CycleEnded
    /\ cyc.sync_failed # {}
    /\ cyc.pre_position # NONE
    /\ cyc.pre_size > 0

(* C4: after the startup sync and at the end of every cycle the tracked size is not
   negative, and the direction (the pair, in the N-venue strategy) is NONE exactly
   when the size is 0. *)
C4_SizeDirection ==
    (StartedUp \/ CycleEnded)
        => /\ current_position_size >= 0
           /\ IF variant = "two" THEN (current_position = NONE) <=> (current_position_size = 0)
              ELSE (current_pair = NoPair) <=> (current_position_size = 0)

(* C5: with auto_revert off, a two-venue entry of which exactly one leg filled ends
   in quarantine with a reason recorded. *)
C5_PartialEntryQuarantines ==
    (variant = "two" /\ ~auto_revert /\ CycleEnded /\ OneEntryLegFilled)
        => (quarantine_mode /\ quarantine_reason # "")

(* C6: with auto_revert on, a two-venue entry of which exactly one leg filled and
   whose three revert attempts all failed ends in quarantine with a reason recorded
   and with the tracked size equal to the quantity of the filled leg. *)
C6_UnrevertedSizeTracked ==
    (variant = "two" /\ auto_revert /\ CycleEnded /\ OneEntryLegFilled
       /\ Cardinality(RevertOrders) = RevertRetries
       /\ \A i \in RevertOrders : ~Filled(i))
        => /\ quarantine_mode
           /\ quarantine_reason # ""
           /\ current_position_size = cyc.entry_qty

(* C7: with auto_revert on, a two-venue entry of which exactly one leg filled and of
   which a revert order filled ends with no position, the size the entry started
   from, and no quarantine. *)
C7_RevertRestores ==
    (variant = "two" /\ auto_revert /\ CycleEnded /\ OneEntryLegFilled
       /\ \E i \in RevertOrders : Filled(i))
        => /\ current_position = NONE
           /\ current_position_size = cyc.entry_size_before
           /\ ~quarantine_mode

C7_Witness ==
    /\ variant = "two"
    /\ auto_revert
    /\ CycleEnded
    /\ OneEntryLegFilled
    /\ Cardinality(RevertOrders) = RevertRetries
    /\ \E i \in RevertOrders : Filled(i)

(* C8: an entry of which every leg filled ends with the tracked size equal to the
   size before the entry plus the requested quantity, and with the requested
   direction (two-venue) or pair (N-venue) tracked. *)
C8_EntryCommits ==
    (CycleEnded /\ EntryOrders # {} /\ \A i \in EntryOrders : Filled(i))
        => /\ current_position_size = cyc.entry_size_before + cyc.entry_qty
           /\ IF variant = "two" THEN current_position = cyc.entry_dir
              ELSE current_pair = cyc.entry_pair

C8_Witness ==
    /\ CycleEnded
    /\ Cardinality(EntryOrders) = 2
    /\ \A i \in EntryOrders : Filled(i)
    /\ cyc.entry_qty > 0
    /\ current_position_size = cyc.entry_qty

(* C9: a cycle that submitted an entry or exit order has queried the positions of
   all its venues successfully before. *)
C9_SyncBeforeOrders ==
    (CycleEnded /\ TradeOrders # {}) => cyc.synced

(* C10: an N-venue reconciliation in which a position query failed leaves
   current_pair, current_position_size and has_unbalanced_position as they were. *)
C10_FailedQueryAborts ==
    (variant = "dyn" /\ cyc.op = "on_start" /\ cyc.sync_failed # {})
        => /\ current_pair = cyc.pre_pair
           /\ current_position_size = cyc.pre_size
           /\ has_unbalanced_position = cyc.pre_unbalanced

(* The execution-window test of the running variant, at the cycle's wall-clock minute. *)
InWindow ==
    IF variant = "two" THEN is_in_window(cyc.minute) ELSE dyn_in_window(cyc.minute)

(* C11: a cycle whose wall-clock minute lies outside the execution window submits no
   entry order and no exit order. *)
C11_WindowGating ==
    (CycleEnded /\ cyc.minute # -1 /\ ~InWindow) => TradeOrders = {}

(* C12: an entry or exit execution that classified every leg as filled submitted no
   leg whose create_order raised, returned an error record, or returned None or an
   empty result. *)
C12_FailedLegNotFilled ==
    (CycleEnded /\ cyc.path \in {"entry_ok", "exit_ok"})
        => \A i \in TradeOrders : Filled(i)

(* C13: a cycle submits no entry or exit order on a venue whose funding-rate fetch
   failed in that cycle. *)
C13_FailedRateNoTrade ==
    CycleEnded => \A i \in TradeOrders : orders[i].venue \notin cyc.rate_failed

(* C18: every check_opportunity cycle has called on_state_update at least once by the
   time it ends. *)
C18_CycleNotifies ==
    CycleEnded => updates # <<>>

(* A two-venue cycle that reconciled a flat position inside the execution window, saw
   no pending order, computed a positive quantity and stayed within the position
   limit. *)
EntryConsidered ==
    /\ variant = "two"
    /\ CycleEnded
    /\ cyc.synced
    /\ classify_direction(cyc.reported[Primary], cyc.reported[Secondary]) = NONE
    /\ cyc.minute # -1
    /\ is_in_window(cyc.minute)
    /\ "pending" \in cyc.reads
    /\ cyc.pending = 0
    /\ cyc.entry_qty > 0
    /\ Max(Abs(cyc.reported[Primary]), Abs(cyc.reported[Secondary])) + cyc.entry_qty
           <= effective_max_pos(cyc.price)

(* The cycle requested an entry in direction d: side_p on the primary and the
   opposite side on the secondary. *)
EntryRequested(d, side_p) ==
    /\ cyc.entry_dir = d
    /\ is_simulation \/
         /\ Len(orders) >= 2
         /\ orders[1] = [venue |-> Primary, side |-> side_p, qty |-> cyc.entry_qty,
                         kind |-> "entry", res |-> orders[1].res]
         /\ orders[2] = [venue |-> Secondary, side |-> Opposite(side_p),
                         qty |-> cyc.entry_qty, kind |-> "entry", res |-> orders[2].res]

(* C15: a two-venue cycle that considers an entry requests SHORT_PRIMARY_LONG_SECONDARY
   (SELL primary, BUY secondary) when the spread is above entry_threshold,
   LONG_PRIMARY_SHORT_SECONDARY (BUY primary, SELL secondary) when it is below
   -entry_threshold, and submits no entry order otherwise. *)
C15_EntryDirection ==
    EntryConsidered
        => IF cyc.spread > EntryThreshold
           THEN EntryRequested(SHORT_PRIMARY_LONG_SECONDARY, "SELL")
           ELSE IF cyc.spread < -EntryThreshold
           THEN EntryRequested(LONG_PRIMARY_SHORT_SECONDARY, "BUY")
           ELSE cyc.entry_dir = NONE /\ EntryOrders = {}

C15_Witness ==
    /\ EntryConsidered
    /\ ~is_simulation
    /\ cyc.spread < -EntryThreshold
    /\ EntryRequested(LONG_PRIMARY_SHORT_SECONDARY, "BUY")
    /\ Cardinality(EntryOrders) = 2

(* The exit threshold configured for the two-venue strategy (0.5% APR). *)
ExitThreshold == 5000

(* The direction the two-venue cycle held after reconciliation. *)
HeldDirection == classify_direction(cyc.reported[Primary], cyc.reported[Secondary])

(* The cycle held a position, ran inside the execution window and outside the exit
   cooldown, and evaluated the spread of the held direction. *)
ExitConsidered ==
    /\ CycleEnded
    /\ cyc.minute # -1
    /\ InWindow
    /\ IF variant = "two"
       THEN /\ cyc.synced
            /\ HeldDirection # NONE
            /\ "spread" \in cyc.reads
            /\ cyc.start_execution_age >= ExecutionCooldown
       ELSE cyc.pre_pair # NoPair /\ "now" \in cyc.reads

(* The spread of the held direction has reverted past the configured exit threshold. *)
ExitDue ==
    IF variant = "dyn" THEN cyc.spread < ExitThresholdApr
    ELSE IF HeldDirection = SHORT_PRIMARY_LONG_SECONDARY THEN cyc.spread < ExitThreshold
    ELSE cyc.spread > -ExitThreshold

ExitExecuted == cyc.path \in {"exit_ok", "exit_failed", "exit_simulated"}

(* C16: a cycle that holds a position inside the execution window and outside the exit
   cooldown executes an exit exactly when the spread of the held direction has
   reverted past the configured exit threshold. *)
C16_ExitOnReversion ==
    ExitConsidered => (ExitExecuted <=> ExitDue)

(* C14: at most one check_opportunity call of the strategy instance is running at any
   time, and a call is running exactly while the loop awaits it. *)
C14_SingleCycle ==
    /\ in_flight <= 1
    /\ in_flight = 1 <=> loop = "checking"
    /\ (variant = "dyn" => (is_checking <=> in_flight = 1))

C14_Witness ==
    /\ in_flight = 1
    /\ loop = "checking"
    /\ current_position_size > 0

(* The largest step size among the venues that receive a leg. *)
LargestStep == Max(calc.l_step, calc.b_step)

(* C17: the entry quantity costs no more than the notional at the price used and is an
   exact multiple of the largest step size among the venues that receive a leg. *)
C17_QuantityOnStep ==
    calc.op \in {"calc_size", "dyn_qty"}
        => /\ calc.qty * calc.price <= OrderSizeUsd * Unit
           /\ LargestStep > 0 => calc.qty % LargestStep = 0

(* C20: the spread of a pair taken one way round is the negation of the spread taken
   the other way round. *)
C20_SpreadAntisymmetric ==
    calc.op = "pair_spread" => calc.spread_ab = -calc.spread_ba

C20_Witness ==
    /\ calc.op = "pair_spread"
    /\ calc.rate_a < 0
    /\ calc.rate_b > 0
    /\ calc.spread_ab < 0
    /\ calc.spread_ba > 0

(* The last cycle ended in an exception, a rate limit, a reconciliation failure, a
   failed order or a partial fill. *)
CycleFailed == cyc.op = "check_opportunity" /\ cyc.path \in FailurePaths

(* C19: under a fair scheduler, a cycle that ended badly is followed by another call of
   check_opportunity unless the task is cancelled first; nothing but cancellation ends
   the loop. *)
C19_LoopContinues ==
    CycleFailed ~> (loop = "checking" \/ loop = "cancelled")

C19_Witness ==
    /\ loop = "checking"
    /\ in_flight = 1
    /\ error_age = TickSeconds
    /\ error_backoff > InitialBackoff

ExitOrders == {i \in 1..Len(orders) : orders[i].kind = "exit"}

(* The hard stop of the running variant: quarantine (two-venue), the unbalanced flag
   (N-venue). *)
HardStopped == IF variant = "two" THEN quarantine_mode ELSE has_unbalanced_position

(* C21: a cycle whose exit had at least one close order fail ends with the strategy
   in its hard stop, so that no later cycle submits a close order on its own. *)
C21_FailedExitQuarantines ==
    (CycleEnded /\ \E i \in ExitOrders : ~Filled(i)) => HardStopped

(* A live two-venue cycle that submitted close orders. *)
LiveExit == variant = "two" /\ ~is_simulation /\ CycleEnded /\ ExitOrders # {}

(* C22: a live two-venue exit of which every close order succeeded ends flat with size
   0, has added the PnL of its one trade record to realized_pnl and has passed exactly
   one trade record to record_trade; a failed or partial exit passes none. *)
C22_ClosedTradeRecorded ==
    LiveExit
        => IF \A i \in ExitOrders : Filled(i)
           THEN /\ current_position = NONE
                /\ current_position_size = 0
                /\ Len(cyc.trades) = 1
                /\ cyc.pnl_added = cyc.trades[1].pnl_realized
           ELSE cyc.trades = <<>>

(* C23: an entry of which every leg failed leaves the direction (or pair), the size and
   the quarantine and unbalanced flags as they were before the entry. *)
C23_FailedEntryNoChange ==
    (CycleEnded /\ EntryOrders # {} /\ \A i \in EntryOrders : ~Filled(i))
        => /\ current_position_size = cyc.entry_size_before
           /\ quarantine_mode = cyc.pre_quarantine
           /\ has_unbalanced_position = cyc.pre_unbalanced
           /\ IF variant = "two" THEN current_position = NONE
              ELSE current_pair = cyc.pre_pair

(* A two-venue entry with auto_revert on of which exactly one leg filled. *)
PartialEntry == variant = "two" /\ auto_revert /\ CycleEnded /\ OneEntryLegFilled

(* Order i reverts entry leg e: same venue, opposite side, the entry quantity. *)
Reverts(i, e) ==
    /\ orders[i].venue = orders[e].venue
    /\ orders[i].side = Opposite(orders[e].side)
    /\ orders[i].qty = orders[e].qty
    /\ orders[i].qty = cyc.entry_qty

(* C24: on a partial entry with auto_revert on, every order after the two entry legs is
   a revert of the leg that filled; there are at most 3 of them, and none follows one
   that succeeded. *)
C24_RevertOnFilledLeg ==
    PartialEntry
        => /\ \A i \in 1..Len(orders) :
                i \in EntryOrders \/
                  /\ i \in RevertOrders
                  /\ \E e \in EntryOrders : Filled(e) /\ Reverts(i, e)
           /\ Cardinality(RevertOrders) <= RevertRetries
           /\ \A i \in RevertOrders : Filled(i) => i = Len(orders)

C24_Witness ==
    /\ PartialEntry
    /\ Cardinality(RevertOrders) = 2
    /\ Filled(Len(orders))
    /\ ~Filled(Len(orders) - 1)
    /\ Filled(2)

(* The max-position limit of the cycle: the notional limit over the price the cycle
   fetched, the fixed quantity when there is no notional limit. *)
PositionLimit == effective_max_pos(cyc.price)

(* C25: a cycle submits entry orders only if the tracked size plus the proposed
   quantity is within the max-position limit, and the tracked size is within the
   limit after an entry of which every leg filled. *)
C25_EntryWithinLimit ==
    (CycleEnded /\ EntryOrders # {})
        => /\ cyc.entry_size_before + cyc.entry_qty <= PositionLimit
           /\ (\A i \in EntryOrders : Filled(i)) => current_position_size <= PositionLimit

(* A two-venue cycle whose reconciliation reported open orders on the primary and that
   reached the pending-order check. *)
PendingReported == variant = "two" /\ CycleEnded /\ cyc.synced /\ cyc.pending > 0

(* C26: a two-venue cycle whose reconciliation reported a pending-order count above
   zero on the primary submits no entry order, and leaves the direction and the size
   as the reconciliation left them. *)
C26_PendingOrdersBlockEntry ==
    PendingReported
        => /\ EntryOrders = {}
           /\ current_position = cyc.gate_position
           /\ current_position_size = cyc.gate_size

(* A cycle in the trading window, flat, with rates fetched and one open order reported:
   it ends at the pending-order check. *)
C26_Witness ==
    /\ PendingReported
    /\ cyc.path = "pending_orders"
    /\ cyc.pending = 1
    /\ "rates" \in cyc.reads
    /\ orders = <<>>

(* The sides on which the startup reconciliation of the N-venue strategy found a
   position of the traded symbol. *)
ShortFound == \E v \in Venues : cyc.reported[v] < -Eps
LongFound == \E v \in Venues : cyc.reported[v] > Eps

(* C27: an N-venue reconciliation that found a position on exactly one side sets
   has_unbalanced_position, and a cycle that starts with the flag set submits no
   order, neither an entry nor one that flattens the lone leg, and leaves it set. *)
C27_LoneLegBlocksOrders ==
    /\ (variant = "dyn" /\ StartedUp /\ (ShortFound # LongFound))
           => has_unbalanced_position
    /\ (variant = "dyn" /\ CycleEnded /\ cyc.pre_unbalanced)
           => (orders = <<>> /\ has_unbalanced_position)

(* A live cycle that starts with the flag set and finds a best spread above the entry
   threshold: it ends without an order. *)
C27_Witness ==
    /\ variant = "dyn"
    /\ ~is_simulation
    /\ CycleEnded
    /\ cyc.pre_unbalanced
    /\ cyc.path = "unbalanced"
    /\ cyc.spread > EntryThresholdApr
    /\ cyc.best_pair # NoPair

(* A two-venue cycle that started within error_backoff of the last error, or in
   quarantine. *)
HeldBack ==
    /\ variant = "two"
    /\ CycleEnded
    /\ (cyc.start_error_age < cyc.pre_backoff \/ cyc.pre_quarantine)

(* C28: a two-venue cycle that starts within error_backoff seconds of last_error_time,
   or in quarantine, queries no position, fetches no rate, submits no order, leaves
   direction and size unchanged and reports one status. *)
C28_HeldBackCycleIdle ==
    HeldBack
        => /\ ~cyc.synced
           /\ cyc.reads = {}
           /\ orders = <<>>
           /\ current_position = cyc.pre_position
           /\ current_position_size = cyc.pre_size
           /\ updates \in {<<"Cooldown">>, <<"QUARANTINED">>}

(* A cycle started 60 s after an error with the backoff above that, holding a
   position: it ends at the cooldown check. *)
C28_Witness ==
    /\ HeldBack
    /\ ~cyc.pre_quarantine
    /\ cyc.start_error_age = TickSeconds
    /\ cyc.pre_position # NONE
    /\ cyc.path = "cooldown"

(* C29: a two-venue cycle submits close orders only when at least execution_cooldown
   seconds have passed since the last cycle that placed orders, entry or exit. *)
C29_ExitAfterCooldown ==
    (variant = "two" /\ CycleEnded /\ ExitOrders # {})
        => cyc.start_order_age >= ExecutionCooldown

(* A two-venue cycle that ran to its end without an error: it watched a held position,
   waited outside the trading window, found no signal or entered. *)
CompletedCleanly ==
    /\ variant = "two"
    /\ CycleEnded
    /\ cyc.path \in {"holding", "holding_outside_window", "flat_outside_window",
                     "no_signal", "entry_ok"}

(* C30: a two-venue cycle that failed on a rate limit (429) ends with error_backoff
   doubled, at most 300 s, and a cycle that completed without error, flat or holding,
   ends with error_backoff at 10 s. *)
C30_BackoffDoublesAndResets ==
    /\ (variant = "two" /\ CycleEnded /\ cyc.path = "rate_limited")
           => error_backoff = Min(2 * cyc.pre_backoff, MaxBackoff)
    /\ CompletedCleanly => error_backoff = InitialBackoff

(* C31: a two-venue cycle that finds the reference price of SOL outside its band, and
   every cycle that starts within the maximum backoff (300 s) after such a cycle,
   submits no entry order. The cycle after such a cycle starts 60 s after it, inside
   the 300 s. *)
C31_InsanePriceHaltsEntries ==
    (variant = "two" /\ CycleEnded
       /\ (cyc.path = "price_error" \/ cyc.start_price_error_last))
        => EntryOrders = {}

(* A reported signed size is short or long when it is beyond the dust threshold. *)
IsShort(x) == x < -Eps
IsLong(x) == x > Eps

(* The direction and the size the two-venue rule gives for the sizes the venues
   reported in this handler run. *)
RuleDirection ==
    LET p == cyc.reported[Primary]
        s == cyc.reported[Secondary]
    IN IF IsShort(p) \/ IsLong(s) THEN SHORT_PRIMARY_LONG_SECONDARY
       ELSE IF IsLong(p) \/ IsShort(s) THEN LONG_PRIMARY_SHORT_SECONDARY
       ELSE NONE
RuleSize == Max(Abs(cyc.reported[Primary]), Abs(cyc.reported[Secondary]))

(* C32: after every successful two-venue reconciliation, at startup and in a cycle,
   the direction is SHORT_PRIMARY_LONG_SECONDARY if the primary is short or the
   secondary long, else LONG_PRIMARY_SHORT_SECONDARY if the primary is long or the
   secondary short, else NONE, and the size is the larger of the two reported
   magnitudes. *)
C32_TwoVenueClassification ==
    /\ (variant = "two" /\ StartedUp /\ cyc.synced)
           => (current_position = RuleDirection /\ current_position_size = RuleSize)
    /\ (variant = "two" /\ CycleEnded /\ cyc.synced)
           => (cyc.synced_position = RuleDirection /\ cyc.synced_size = RuleSize)

(* A cycle whose reconciliation was told of a short primary twice the size of the long
   secondary. *)
C32_Witness ==
    /\ variant = "two"
    /\ CycleEnded
    /\ cyc.synced
    /\ cyc.reported[Primary] = -2 * Unit
    /\ cyc.reported[Secondary] = Unit
    /\ cyc.synced_position = SHORT_PRIMARY_LONG_SECONDARY
    /\ cyc.synced_size = 2 * Unit

(* The largest short and the largest long the venues reported at startup. *)
LargestShort == CHOOSE x \in {cyc.reported[v] : v \in Venues} :
                    \A v \in Venues : x <= cyc.reported[v]
LargestLong == CHOOSE x \in {cyc.reported[v] : v \in Venues} :
                   \A v \in Venues : x >= cyc.reported[v]

(* C33: after an N-venue reconciliation that found a short and a long, current_pair
   is (a venue holding the largest short, a venue holding the largest long) and the
   size is the smaller of the two magnitudes; after one that found no position,
   current_pair is None, the size 0 and the unbalanced flag clear. *)
C33_NVenueClassification ==
    /\ (variant = "dyn" /\ StartedUp /\ ShortFound /\ LongFound)
           => /\ current_pair # NoPair
              /\ cyc.reported[current_pair[1]] = LargestShort
              /\ cyc.reported[current_pair[2]] = LargestLong
              /\ current_position_size = Min(Abs(LargestShort), Abs(LargestLong))
    /\ (variant = "dyn" /\ StartedUp /\ ~ShortFound /\ ~LongFound)
           => /\ current_pair = NoPair
              /\ current_position_size = 0
              /\ ~has_unbalanced_position

(* A startup at which two venues report a short, of 1.0 and of 2.0, and the third a
   long of 1.0. *)
C33_Witness ==
    /\ variant = "dyn"
    /\ StartedUp
    /\ cyc.reported = PosOf(-Unit, -2 * Unit, Unit)
    /\ current_pair = <<"backpack", "edgex">>
    /\ current_position_size = Unit

(* The venues whose rate fetch gave a rate in this N-venue cycle. *)
Reporting == Venues \ cyc.rate_failed
RatesEvaluated == variant = "dyn" /\ CycleEnded /\ "rates" \in cyc.reads

(* C34: an N-venue cycle in which at least two venues reported a rate selects as
   best_pair an ordered pair of two different reporting venues whose spread
   APR(short) - APR(long) no other ordered pair of reporting venues exceeds; with
   fewer than two reporting venues it selects no pair and makes no entry. *)
C34_BestPairMaximal ==
    /\ (RatesEvaluated /\ Cardinality(Reporting) >= 2)
           => /\ cyc.best_pair # NoPair
              /\ cyc.best_pair[1] # cyc.best_pair[2]
              /\ {cyc.best_pair[1], cyc.best_pair[2]} \subseteq Reporting
              /\ \A i, j \in Reporting :
                     i # j => cyc.aprs[i] - cyc.aprs[j]
                                  <= cyc.aprs[cyc.best_pair[1]] - cyc.aprs[cyc.best_pair[2]]
    /\ (RatesEvaluated /\ Cardinality(Reporting) < 2)
           => /\ cyc.best_pair = NoPair
              /\ cyc.entry_pair = NoPair
              /\ EntryOrders = {}

(* A cycle in which all three venues report, the last in the list with the highest
   rate: the pair selected is short on that venue. *)
C34_Witness ==
    /\ RatesEvaluated
    /\ Reporting = Venues
    /\ cyc.aprs["edgex"] > cyc.aprs["lighter"]
    /\ cyc.aprs["lighter"] = cyc.aprs["backpack"]
    /\ cyc.best_pair = <<"edgex", "lighter">>

(* C35: in a cycle that submits close orders, the venues were reconciled in that
   cycle, every close order has the absolute size reconciled for its leg as its
   quantity, and a leg reconciled at 0 gets no close order. *)
C35_ExitClosesMeasuredSize ==
    (CycleEnded /\ ExitOrders # {})
        => /\ cyc.synced
           /\ \A i \in ExitOrders :
                  /\ cyc.reported[orders[i].venue] # 0
                  /\ orders[i].qty = Abs(cyc.reported[orders[i].venue])

(* The strategy held a position when the cycle came to its entry/exit decision: after
   the reconciliation in the two-venue variant, at the start in the N-venue one. *)
HeldAtDecision ==
    IF variant = "two" THEN cyc.synced /\ cyc.synced_position # NONE
    ELSE "ticker" \in cyc.reads /\ cyc.pre_pair # NoPair

(* C36: no cycle submits both close orders and entry orders, and a cycle that holds a
   position at its decision attempts no entry and submits no entry order, also when
   its exit succeeded. *)
C36_NoExitAndEntry ==
    CycleEnded
        => /\ ~(ExitOrders # {} /\ EntryOrders # {})
           /\ HeldAtDecision
                  => (EntryOrders = {} /\ cyc.entry_dir = NONE /\ cyc.entry_pair = NoPair)

(* A live two-venue cycle that held a position, closed it with both orders filled on a
   spread that is beyond the entry threshold the other way, and ends flat. *)
C36_Witness ==
    /\ variant = "two"
    /\ CycleEnded
    /\ HeldAtDecision
    /\ cyc.path = "exit_ok"
    /\ Abs(cyc.spread) > EntryThresholdApr
    /\ current_position = NONE
    /\ \A i \in 1..Len(orders) : orders[i].kind = "exit" /\ Filled(i)

(* The strategy task has ended: it was cancelled, or on_start had stopped it. *)
TaskEnded == loop \in {"cancelled", "stopped"}

(* C37: when the venue connections have been closed, the strategy task and the balance
   monitor have been cancelled and have ended, and no call of a cycle is in flight. *)
C37_CloseAfterTasksEnd ==
    main = "closed" => (TaskEnded /\ monitor_task = "cancelled" /\ in_flight = 0)

(* The venues are closed after a shutdown that found the strategy holding a position:
   its task was cancelled, not stopped. *)
C37_Witness ==
    /\ main = "closed"
    /\ loop = "cancelled"
    /\ monitor_task = "cancelled"
    /\ IF variant = "two" THEN current_position # NONE ELSE current_pair # NoPair

(* C38: every close order of a two-venue exit reduces the exposure of its leg: a BUY
   goes to a leg reconciled short and a SELL to a leg reconciled long, whatever signs
   the two legs were reported with. *)
C38_CloseOrdersReduceExposure ==
    (variant = "two" /\ CycleEnded)
        => \A i \in ExitOrders :
               /\ orders[i].side = "BUY" => cyc.reported[orders[i].venue] < 0
               /\ orders[i].side = "SELL" => cyc.reported[orders[i].venue] > 0

(* C39: with is_simulation set, no handler run of either variant calls create_order:
   the log of orders stays empty in every state. *)
C39_SimulationPlacesNoOrder == is_simulation => orders = <<>>

(* A simulated entry has just changed the tracked direction and size, with no order. *)
C39_Witness ==
    /\ is_simulation
    /\ CycleEnded
    /\ cyc.path = "entry_simulated"
    /\ current_position_size > 0
    /\ IF variant = "two" THEN current_position # NONE ELSE current_pair # NoPair
    /\ orders = <<>>

(* C40: in the N-venue strategy is_checking is false whenever no check_opportunity
   call is executing, whichever way the last cycle ended, so that the guard never
   turns away a call that is due. *)
C40_GuardNeverStale ==
    (variant = "dyn" /\ loop # "checking") => ~is_checking

(* An N-venue cycle has returned early because no venue gave a rate, and the flag is
   clear. *)
C40_Witness ==
    /\ variant = "dyn"
    /\ CycleEnded
    /\ cyc.path = "no_rates"
    /\ ~is_checking

====
